---- MODULE Spec2Model ----
(***************************************************************************)
(* Model of sphinx_inventory_builder/__init__.py: the inventory-only       *)
(* builders (_InventoryMixin), the config-inited callback                  *)
(* disable_intersphinx with detect_builder, the missing-reference hook     *)
(* ignore_external_refs and the builder-inited callback that patches       *)
(* get_target_uri.                                                         *)
(*                                                                         *)
(* Python strings that the code inspects character by character (argv      *)
(* entries, builder names, URIs) are sequences of one-character strings.   *)
(* Values the code only passes around or compares whole (warning           *)
(* categories, file names, document names of the build) are TLA+ strings.  *)
(***************************************************************************)
EXTENDS Integers, Sequences, FiniteSets

VARIABLES
    pc,             \* position of the host in the application's lifecycle
    exc,            \* exception that escaped a callback, "none" when none did
    argv,           \* sys.argv
    conf_py,        \* the values the project's conf.py configured
    config,         \* app.config
    detected,       \* what detect_builder returned or raised in disable_intersphinx
    builder_name,   \* app.builder.name
    patched,        \* app.builder.get_target_uri is patched_get_target_uri
    uri_call,       \* the last call of app.builder.get_target_uri
    found_docs,     \* env.found_docs
    refs,           \* the unresolved references of each source document
    all_docs,       \* documents processed into the Environment
    env_objects,    \* symbols known to the Environment
    to_build,       \* what get_outdated_docs returned to the host
    updated,        \* documents the host read in the current build
    written,        \* documents handed to write_doc in the current build
    files,          \* files the builder's hooks wrote under outdir
    dumps,          \* InventoryFile.dump invocations of the current build
    ref_log,        \* how the host settled each unresolved reference
    build_no,       \* number of the current build
    first_inv       \* the artifact the first build left

vars == <<pc, exc, argv, conf_py, config, detected, builder_name, patched,
          uri_call, found_docs, refs, all_docs, env_objects, to_build,
          updated, written, files, dumps, ref_log, build_no, first_inv>>

----------------------------------------------------------------------------
(* Bounds of the model. *)

MaxArgs == 3        \* arguments after argv[0]
MaxBody == 3        \* characters after the prefix of a host address
MaxDocs == 2        \* source documents of a project
MaxBuilds == 2      \* consecutive builds of one project
SymbolsPerDoc == 2  \* symbols a source document declares

----------------------------------------------------------------------------
(* String literals of the source. *)

s_b == <<"-", "b">>
s_builder_eq == <<"-", "-", "b", "u", "i", "l", "d", "e", "r", "=">>
s_html == <<"h", "t", "m", "l">>
s_singlehtml == <<"s", "i", "n", "g", "l", "e">> \o s_html
s_inventory_ == <<"i", "n", "v", "e", "n", "t", "o", "r", "y", "-">>
s_inventory_html == s_inventory_ \o s_html
s_inventory_singlehtml == s_inventory_ \o s_singlehtml
s_document_ == <<"#", "d", "o", "c", "u", "m", "e", "n", "t", "-">>
s_dot_html == <<".">> \o s_html
s_index == <<"i", "n", "d", "e", "x">>

inventory_builders == <<s_inventory_html, s_inventory_singlehtml>>

----------------------------------------------------------------------------
(* Python built-ins used by the source, on 0-based positions as in Python. *)

Range(s) == {s[k] : k \in 1..Len(s)}

Min(S) == CHOOSE x \in S : \A y \in S : x <= y

\* str.startswith(prefix)
startswith(s, prefix) ==
    /\ Len(s) >= Len(prefix)
    /\ SubSeq(s, 1, Len(prefix)) = prefix

\* str.find(ch, start): the lowest position >= start holding ch, else -1
find(s, ch, start) ==
    LET hits == {k \in start..(Len(s) - 1) : s[k + 1] = ch}
    IN  IF hits = {} THEN -1 ELSE Min(hits)

\* s[k:], for k >= 0 and for negative k (counted from the end)
slice_from(s, k) ==
    LET from == IF k >= 0 THEN k
                ELSE IF Len(s) + k >= 0 THEN Len(s) + k ELSE 0
    IN  SubSeq(s, from + 1, Len(s))

\* list.index(x): the first position holding x; -1 stands for ValueError
index(list, x) ==
    LET hits == {k \in 0..(Len(list) - 1) : list[k + 1] = x}
    IN  IF hits = {} THEN -1 ELSE Min(hits)

\* a.split("=", 1)[1]: what follows the first "="
split_eq_1(a) == slice_from(a, find(a, "=", 0) + 1)

----------------------------------------------------------------------------
(* Configuration. *)

\* setup: app.add_config_value("inventory_filename", default="objects.inv")
default_inventory_filename == "objects.inv"

\* app.config as the host builds it from conf.py: a value conf.py leaves unset
\* takes the registered default
Config(conf) ==
    [conf EXCEPT !.inventory_filename =
        IF conf.inventory_filename = "unset" THEN default_inventory_filename
        ELSE conf.inventory_filename]

base_conf ==
    [intersphinx_mapping |-> {},
     intersphinx_disabled_reftypes |-> <<"std:doc">>,
     suppress_warnings |-> <<>>,
     inventory_filename |-> "unset",
     root_doc |-> s_index,
     html_file_suffix |-> s_dot_html]

----------------------------------------------------------------------------
(* Cross-reference noise suppression. *)

\* A return value or the exception raised in its place.
Return(v) == [exc |-> "none", value |-> v]
Raise(e) == [exc |-> e, value |-> <<>>]

detect_builder_last_b(a) ==
    LET hits == {k \in 0..(Len(a) - 1) : a[k + 1] = s_b}
        long == {k \in 0..(Len(a) - 1) : startswith(a[k + 1], s_builder_eq)}
    IN  IF hits # {}
        THEN LET i == CHOOSE k \in hits : \A m \in hits : m <= k
             IN  IF i + 1 < Len(a) THEN Return(a[i + 2]) ELSE Raise("IndexError")
        ELSE IF long = {} THEN Raise("UnboundLocalError")
             ELSE Return(split_eq_1(a[Min(long) + 1]))

\* detect_builder: argv[argv.index("-b") + 1]; on ValueError the value of the
\* first "--builder=" argument.  An IndexError of argv[i + 1] is not caught, and
\* with no "--builder=" argument `name` is unbound at the return.
detect_builder(a) ==
    LET i == index(a, s_b)
        long == {k \in 0..(Len(a) - 1) : startswith(a[k + 1], s_builder_eq)}
    IN  IF i # -1
        THEN IF i + 1 < Len(a) THEN Return(a[i + 2]) ELSE Raise("IndexError")
        ELSE IF long = {} THEN Raise("UnboundLocalError")
             ELSE Return(split_eq_1(a[Min(long) + 1]))

suppression_keeps_mapping(cfg) ==
    [cfg EXCEPT !.intersphinx_disabled_reftypes = <<"*">>,
                !.suppress_warnings = <<"ref.*", "docutils">>]

\* the three assignments of disable_intersphinx
suppression(cfg) ==
    [cfg EXCEPT !.intersphinx_mapping = {},
                !.intersphinx_disabled_reftypes = <<"*">>,
                !.suppress_warnings = <<"ref.*", "docutils">>]

\* the config-inited callback
disable_intersphinx ==
    /\ pc = "config-inited"
    /\ LET d == detect_builder(argv)
       IN  /\ detected' = d
           /\ IF d.exc # "none"
              THEN /\ exc' = d.exc
                   /\ pc' = "failed"
                   /\ UNCHANGED config
              ELSE /\ config' = IF d.value \in Range(inventory_builders)
                                THEN suppression(config) ELSE config
                   /\ pc' = "builder-inited"
                   /\ UNCHANGED exc
    /\ UNCHANGED <<argv, conf_py, builder_name, patched, uri_call, found_docs,
                   refs, all_docs, env_objects, to_build, updated, written,
                   files, dumps, ref_log, build_no, first_inv>>

----------------------------------------------------------------------------
(* Invocations of the host program. *)

ArgTokens ==
    {s_b, s_html, s_inventory_html, s_inventory_singlehtml,
     s_builder_eq \o s_html, s_builder_eq \o s_inventory_html,
     s_builder_eq \o <<"x", "=">> \o s_html}

RECURSIVE SeqsUpTo(_, _)
SeqsUpTo(S, n) ==
    IF n = 0 THEN {<<>>}
    ELSE LET shorter == SeqsUpTo(S, n - 1)
         IN  shorter \cup {Append(s, x) : s \in shorter, x \in S}

s_sphinx_build == <<"s", "p", "h", "i", "n", "x">>

Argvs == {<<s_sphinx_build>> \o rest : rest \in SeqsUpTo(ArgTokens, MaxArgs)}

ConfPys ==
    {[base_conf EXCEPT !.intersphinx_mapping = m,
                       !.intersphinx_disabled_reftypes = r,
                       !.suppress_warnings = w] :
        m \in {{}, {"python"}},
        r \in {<<"std:doc">>, <<"*">>},
        w \in {<<>>, <<"epub.unknown_project_files">>, <<"docutils">>}}

no_call == [called |-> FALSE, host |-> <<>>, result |-> <<>>]
no_detection == Raise("not called")

InitConfig ==
    /\ pc = "config-inited"
    /\ exc = "none"
    /\ argv \in Argvs
    /\ conf_py \in ConfPys
    /\ config = Config(conf_py)
    /\ detected = no_detection
    /\ builder_name = s_html
    /\ patched = FALSE
    /\ uri_call = no_call
    /\ found_docs = {}
    /\ refs = <<>>
    /\ all_docs = {}
    /\ env_objects = {}
    /\ to_build = {}
    /\ updated = {}
    /\ written = {}
    /\ files = {}
    /\ dumps = 0
    /\ ref_log = {}
    /\ build_no = 1
    /\ first_inv = {}

NextConfig == disable_intersphinx

SpecConfig == InitConfig /\ [][NextConfig]_vars

----------------------------------------------------------------------------
(* Link target rewriter. *)

Builders ==
    {s_html, s_singlehtml, s_inventory_html, s_inventory_singlehtml,
     <<"d", "i", "r">> \o s_html}

\* app.builder.out_suffix, which the host's HTML builders take from the
\* html_file_suffix setting
out_suffix(cfg) == cfg.html_file_suffix

rewritten_builders_with_html == {s_inventory_singlehtml, s_singlehtml, s_inventory_html}

\* the builder names on_builder_inited patches
rewritten_builders == {s_inventory_singlehtml, s_singlehtml}

patched_get_target_uri_unchecked(uri, cfg) ==
    IF startswith(uri, s_document_)
    THEN LET next_hash == find(uri, "#", Len(s_document_))
         IN  cfg.root_doc \o out_suffix(cfg) \o slice_from(uri, next_hash)
    ELSE uri

\* patched_get_target_uri, applied to the address uri that
\* original_get_target_uri(docname, typ) returned
patched_get_target_uri(uri, cfg) ==
    IF startswith(uri, s_document_)
    THEN LET next_hash == find(uri, "#", Len(s_document_))
             suffix == IF next_hash # -1 THEN slice_from(uri, next_hash) ELSE <<>>
         IN  cfg.root_doc \o out_suffix(cfg) \o suffix
    ELSE uri

\* the builder-inited callback
on_builder_inited ==
    /\ pc = "builder-inited"
    /\ patched' = (builder_name \in rewritten_builders)
    /\ pc' = "resolving"
    /\ UNCHANGED <<exc, argv, conf_py, config, detected, builder_name, uri_call,
                   found_docs, refs, all_docs, env_objects, to_build, updated,
                   written, files, dumps, ref_log, build_no, first_inv>>

\* Addresses the host's get_target_uri returns: with the marker prefix, with a
\* prefix that falls one character short of it, and with none.
HostAddresses ==
    {prefix \o body :
        prefix \in {<<>>, s_document_, SubSeq(s_document_, 1, Len(s_document_) - 1)},
        body \in SeqsUpTo({"a", "#"}, MaxBody)}

\* a call app.builder.get_target_uri(docname, typ), for which the host's
\* implementation returns uri
get_target_uri(uri) ==
    /\ pc = "resolving"
    /\ uri_call' = [called |-> TRUE,
                    host |-> uri,
                    result |-> IF patched THEN patched_get_target_uri(uri, config)
                               ELSE uri]
    /\ UNCHANGED <<pc, exc, argv, conf_py, config, detected, builder_name, patched,
                   found_docs, refs, all_docs, env_objects, to_build, updated,
                   written, files, dumps, ref_log, build_no, first_inv>>

InitUri ==
    /\ pc = "builder-inited"
    /\ exc = "none"
    /\ argv = <<s_sphinx_build>>
    /\ conf_py \in {[base_conf EXCEPT !.root_doc = r, !.html_file_suffix = x] :
                        r \in {s_index, <<"a">>},
                        x \in {s_dot_html, <<".", "x">>}}
    /\ config = Config(conf_py)
    /\ detected = no_detection
    /\ builder_name \in Builders
    /\ patched = FALSE
    /\ uri_call = no_call
    /\ found_docs = {}
    /\ refs = <<>>
    /\ all_docs = {}
    /\ env_objects = {}
    /\ to_build = {}
    /\ updated = {}
    /\ written = {}
    /\ files = {}
    /\ dumps = 0
    /\ ref_log = {}
    /\ build_no = 1
    /\ first_inv = {}

NextUri ==
    \/ on_builder_inited
    \/ \E uri \in HostAddresses : get_target_uri(uri)

SpecUri == InitUri /\ [][NextUri]_vars

----------------------------------------------------------------------------
(* Unresolved references. *)

\* Reference nodes: the Python attribute `intersphinx` of the node, which the
\* inter-project mechanism sets and other nodes lack.
tagged_node == [intersphinx |-> "True"]
untagged_node == [intersphinx |-> "absent"]
Nodes == {tagged_node, untagged_node, [intersphinx |-> "False"]}

\* getattr(node, 'intersphinx', False)
getattr_intersphinx(node) ==
    IF node.intersphinx = "absent" THEN "False" ELSE node.intersphinx

\* ignore_external_refs(app, env, node, contnode)
ignore_external_refs(node, contnode) ==
    IF getattr_intersphinx(node) = "True" THEN "None" ELSE contnode

\* The host's emit of missing-reference with one handler connected: a handler
\* result other than None resolves the reference, None leaves it to the host's
\* unresolved-reference warning.
missing_reference(node) ==
    IF ignore_external_refs(node, "contnode") # "None" THEN "resolved" ELSE "warning"

----------------------------------------------------------------------------
(* The inventory-only builders. *)

DocNames == <<"index", "api", "usage", "faq", "changes">>
Docs == {DocNames[k] : k \in 1..MaxDocs}

\* the symbols a source document declares
Declared(d) == {<<d, k>> : k \in 1..SymbolsPerDoc}

\* what a hook does to the output directory and to the serializer
Effect(fs, n) == [files |-> fs, dumps |-> n]

\* path.join(self.outdir, name)
path_join(name) == <<"outdir", name>>

file(name, content) == [path |-> path_join(name), content |-> content]

get_outdated_docs_new_only == found_docs \ all_docs

\* _InventoryMixin.get_outdated_docs
get_outdated_docs == found_docs

write_doc_renders(docname) == Effect({file(docname \o ".html", {})}, 0)

\* _InventoryMixin.write_doc
write_doc(docname) == Effect({}, 0)

copy_static_files_dumps == Effect({file(config.inventory_filename, env_objects)}, 1)

\* _InventoryMixin.copy_static_files
copy_static_files == Effect({}, 0)

\* _InventoryMixin.finish: InventoryFile.dump(path.join(outdir,
\* config.inventory_filename), env, self) writes an entry for every symbol the
\* Environment knows
finish == Effect({file(config.inventory_filename, env_objects)}, 1)

\* a write to the output directory replaces the file at the same path
Written(fs, new) == {f \in fs : \A g \in new : g.path # f.path} \cup new

\* the host asks the builder which documents to build (Builder.build_update)
HostOutdated ==
    /\ pc = "outdated"
    /\ to_build' = get_outdated_docs
    /\ pc' = "reading"
    /\ UNCHANGED <<exc, argv, conf_py, config, detected, builder_name, patched,
                   uri_call, found_docs, refs, all_docs, env_objects, updated,
                   written, files, dumps, ref_log, build_no, first_inv>>

\* the host reads a document the Environment lacks (in any order: the reading
\* phase may run in parallel)
HostRead(d) ==
    /\ pc = "reading"
    /\ d \in found_docs \ all_docs
    /\ all_docs' = all_docs \cup {d}
    /\ env_objects' = env_objects \cup Declared(d)
    /\ updated' = updated \cup {d}
    /\ UNCHANGED <<pc, exc, argv, conf_py, config, detected, builder_name, patched,
                   uri_call, found_docs, refs, to_build, written, files, dumps,
                   ref_log, build_no, first_inv>>

\* the reading phase has joined
HostReadDone ==
    /\ pc = "reading"
    /\ found_docs \subseteq all_docs
    /\ pc' = "writing"
    /\ UNCHANGED <<exc, argv, conf_py, config, detected, builder_name, patched,
                   uri_call, found_docs, refs, all_docs, env_objects, to_build,
                   updated, written, files, dumps, ref_log, build_no, first_inv>>

\* the host resolves a document's references, emitting missing-reference for
\* each unresolved one, and hands the document to write_doc
HostWrite(d) ==
    /\ pc = "writing"
    /\ d \in (to_build \cup updated) \ written
    /\ ref_log' = ref_log \cup
           {[doc |-> d, node |-> n, outcome |-> missing_reference(n)] : n \in refs[d]}
    /\ files' = Written(files, write_doc(d).files)
    /\ dumps' = dumps + write_doc(d).dumps
    /\ written' = written \cup {d}
    /\ UNCHANGED <<pc, exc, argv, conf_py, config, detected, builder_name, patched,
                   uri_call, found_docs, refs, all_docs, env_objects, to_build,
                   updated, first_inv, build_no>>

\* the writing phase is over
HostWriteDone ==
    /\ pc = "writing"
    /\ (to_build \cup updated) \subseteq written
    /\ pc' = "static"
    /\ UNCHANGED <<exc, argv, conf_py, config, detected, builder_name, patched,
                   uri_call, found_docs, refs, all_docs, env_objects, to_build,
                   updated, written, files, dumps, ref_log, build_no, first_inv>>

\* the host's request to copy the static assets (the host's HTML builders make
\* it while finalizing; here it precedes the builder's own finish)
HostCopyStatic ==
    /\ pc = "static"
    /\ files' = Written(files, copy_static_files.files)
    /\ dumps' = dumps + copy_static_files.dumps
    /\ pc' = "finish"
    /\ UNCHANGED <<exc, argv, conf_py, config, detected, builder_name, patched,
                   uri_call, found_docs, refs, all_docs, env_objects, to_build,
                   updated, written, ref_log, build_no, first_inv>>

\* the host finalizes the build
HostFinish ==
    /\ pc = "finish"
    /\ files' = Written(files, finish.files)
    /\ dumps' = dumps + finish.dumps
    /\ first_inv' = IF build_no = 1 THEN finish.files ELSE first_inv
    /\ pc' = "done"
    /\ UNCHANGED <<exc, argv, conf_py, config, detected, builder_name, patched,
                   uri_call, found_docs, refs, all_docs, env_objects, to_build,
                   updated, written, ref_log, build_no>>

\* the project is built again over unchanged sources, with the saved
\* Environment or (fresh) with a new one
HostRebuild(fresh) ==
    /\ pc = "done"
    /\ build_no < MaxBuilds
    /\ build_no' = build_no + 1
    /\ pc' = "outdated"
    /\ all_docs' = IF fresh THEN {} ELSE all_docs
    /\ env_objects' = IF fresh THEN {} ELSE env_objects
    /\ to_build' = {}
    /\ updated' = {}
    /\ written' = {}
    /\ dumps' = 0
    /\ ref_log' = {}
    /\ UNCHANGED <<exc, argv, conf_py, config, detected, builder_name, patched,
                   uri_call, found_docs, refs, files, first_inv>>

Init ==
    /\ pc = "outdated"
    /\ exc = "none"
    /\ argv = <<s_sphinx_build>>
    /\ conf_py \in {[base_conf EXCEPT !.inventory_filename = f] :
                        f \in {"unset", "custom.inv"}}
    /\ config = Config(conf_py)
    /\ detected = no_detection
    /\ builder_name \in {s_inventory_html, s_inventory_singlehtml}
    /\ patched = (builder_name = s_inventory_singlehtml)
    /\ uri_call = no_call
    /\ found_docs \in SUBSET Docs
    /\ refs \in [found_docs -> SUBSET {tagged_node, untagged_node}]
    /\ all_docs = {}
    /\ env_objects = {}
    /\ to_build = {}
    /\ updated = {}
    /\ written = {}
    /\ files = {}
    /\ dumps = 0
    /\ ref_log = {}
    /\ build_no = 1
    /\ first_inv = {}

Next ==
    \/ HostOutdated
    \/ \E d \in Docs : HostRead(d)
    \/ HostReadDone
    \/ \E d \in Docs : HostWrite(d)
    \/ HostWriteDone
    \/ HostCopyStatic
    \/ HostFinish
    \/ \E fresh \in BOOLEAN : HostRebuild(fresh)

Spec == Init /\ [][Next]_vars

----------------------------------------------------------------------------
(* Properties of the build (Spec). *)

AllDeclared == UNION {Declared(d) : d \in found_docs}

ConfiguredName ==
    IF conf_py.inventory_filename = "unset" THEN "objects.inv"
    ELSE conf_py.inventory_filename

Named(name) == {f \in files : f.path = <<"outdir", name>>}

\* C1: in a build with an inventory-only builder the serializer is invoked
\* exactly once, by finish: no dump has happened before finish ran (not in
\* write_doc, not in copy_static_files), exactly one has once the build is done,
\* it happened with every known document processed into the Environment, and the
\* artifact at <outdir>/<inventory_filename> then holds an entry for every symbol
\* declared in every known document.
C1_DumpOnceAfterAllDocs ==
    /\ dumps = IF pc = "done" THEN 1 ELSE 0
    /\ dumps > 0 => /\ found_docs \subseteq all_docs
                    /\ AllDeclared \subseteq env_objects
    /\ pc = "done" =>
           /\ Cardinality(Named(config.inventory_filename)) = 1
           /\ \A f \in Named(config.inventory_filename) : AllDeclared \subseteq f.content

C1_Witness ==
    /\ pc = "done"
    /\ found_docs = Docs
    /\ written = Docs
    /\ dumps = 1
    /\ \E f \in files : f.content = AllDeclared /\ f.content # {}

\* C3 (as claimed): every unresolved reference tagged as external is settled as
\* handled, with no warning, and every untagged one falls through to the host's
\* unresolved-reference warning.
C3_Claimed ==
    \A r \in ref_log :
        /\ r.node.intersphinx = "True" => r.outcome = "resolved"
        /\ r.node.intersphinx # "True" => r.outcome = "warning"

\* C7: during and after a build with an inventory-only builder the output
\* directory holds nothing but the artifact <outdir>/<inventory_filename>: no
\* rendered page of a known document and no static asset; with the setting at
\* "custom.inv" no objects.inv is ever created and the finished build has left
\* custom.inv, with the setting at its default it has left objects.inv.
C7_OnlyTheInventory ==
    /\ \A f \in files : f.path = <<"outdir", ConfiguredName>>
    /\ \A d \in found_docs : Named(d \o ".html") = {}
    /\ conf_py.inventory_filename = "custom.inv" => Named("objects.inv") = {}
    /\ pc = "done" => Named(ConfiguredName) # {}

C7_Witness ==
    /\ pc = "done"
    /\ conf_py.inventory_filename = "custom.inv"
    /\ written = Docs
    /\ Named("custom.inv") # {}
    /\ Named("objects.inv") = {}

\* C8: in every build get_outdated_docs returns all of env.found_docs, whatever
\* the Environment already holds and whatever earlier builds wrote, so every
\* build hands every known document to the builder, and a rebuild over unchanged
\* sources leaves the same artifact as the first build.
C8_FullRebuild ==
    /\ pc # "outdated" => to_build = found_docs
    /\ pc \in {"static", "finish", "done"} => written = found_docs
    /\ (pc = "done" /\ build_no > 1) => Named(config.inventory_filename) = first_inv

C8_Witness ==
    /\ pc = "done"
    /\ build_no = 2
    /\ found_docs = Docs
    /\ updated = {}
    /\ written = Docs
    /\ first_inv # {}

----------------------------------------------------------------------------
(* Properties of the configuration callback (SpecConfig). *)

BPositions == {k \in 1..Len(argv) : argv[k] = <<"-", "b">>}

LongPositions ==
    {k \in 1..Len(argv) :
        /\ Len(argv[k]) >= 10
        /\ SubSeq(argv[k], 1, 10) = <<"-", "-", "b", "u", "i", "l", "d", "e", "r", "=">>}

\* what follows the first "=" of a
AfterFirstEq(a) ==
    LET k == CHOOSE j \in 1..Len(a) :
                 a[j] = "=" /\ \A m \in 1..(j - 1) : a[m] # "="
    IN  SubSeq(a, k + 1, Len(a))

First(S) == CHOOSE k \in S : \A m \in S : k <= m

InventoryDetected ==
    /\ detected.exc = "none"
    /\ detected.value \in
           {<<"i", "n", "v", "e", "n", "t", "o", "r", "y", "-", "h", "t", "m", "l">>,
            <<"i", "n", "v", "e", "n", "t", "o", "r", "y", "-",
              "s", "i", "n", "g", "l", "e", "h", "t", "m", "l">>}

Untouched ==
    /\ config.intersphinx_mapping = conf_py.intersphinx_mapping
    /\ config.intersphinx_disabled_reftypes = conf_py.intersphinx_disabled_reftypes
    /\ config.suppress_warnings = conf_py.suppress_warnings

\* no "-b" followed by a name and no "--builder=" argument
Undeterminable ==
    /\ \A k \in BPositions : k = Len(argv)
    /\ LongPositions = {}

\* C2 (as claimed): when no builder name can be determined from the arguments,
\* disable_intersphinx completes without raising and leaves intersphinx_mapping,
\* intersphinx_disabled_reftypes and suppress_warnings unchanged.
C2_Claimed ==
    (pc # "config-inited" /\ Undeterminable) =>
        /\ exc = "none"
        /\ pc # "failed"
        /\ Untouched

\* C5 (as claimed): when the detected builder is an inventory-only variant,
\* suppress_warnings afterwards contains "ref.*" and "docutils" and still
\* contains every category conf.py had configured.
C5_Claimed ==
    (pc = "builder-inited" /\ InventoryDetected) =>
        /\ {"ref.*", "docutils"} \subseteq Range(config.suppress_warnings)
        /\ Range(conf_py.suppress_warnings) \subseteq Range(config.suppress_warnings)

\* C6: after disable_intersphinx the suppression has been applied (the mapping
\* is empty and resolution is disabled for every reference type, "*") if the
\* detected builder name is inventory-html or inventory-singlehtml, and only
\* then: in every other case the three settings are as conf.py configured them.
C6_SuppressionIffInventory ==
    pc # "config-inited" =>
        /\ InventoryDetected =>
               /\ config.intersphinx_mapping = {}
               /\ config.intersphinx_disabled_reftypes = <<"*">>
        /\ ~InventoryDetected => Untouched

C6_Witness ==
    /\ pc = "builder-inited"
    /\ detected.value = s_inventory_singlehtml
    /\ conf_py.intersphinx_mapping # {}
    /\ conf_py.intersphinx_disabled_reftypes # <<"*">>
    /\ config.intersphinx_mapping = {}
    /\ config.intersphinx_disabled_reftypes = <<"*">>

\* C10: when "-b" occurs and its first occurrence is not the last argument,
\* detect_builder returns the argument right after that first occurrence, a
\* "--builder=NAME" argument notwithstanding; when no argument equals "-b" and
\* some argument starts with "--builder=", it returns what follows the first "="
\* of the first such argument; and when the first "-b" is the last argument no
\* "--builder=" value is returned (nothing is).
C10_FirstDashBWins ==
    pc # "config-inited" =>
        /\ (BPositions # {} /\ First(BPositions) < Len(argv)) =>
               detected = [exc |-> "none", value |-> argv[First(BPositions) + 1]]
        /\ (BPositions = {} /\ LongPositions # {}) =>
               detected = [exc |-> "none",
                           value |-> AfterFirstEq(argv[First(LongPositions)])]
        /\ (BPositions # {} /\ First(BPositions) = Len(argv)) =>
               detected.exc # "none"

C10_Witness ==
    /\ pc = "builder-inited"
    /\ LongPositions # {}
    /\ BPositions # {}
    /\ First(LongPositions) < First(BPositions)
    /\ detected.value = argv[First(BPositions) + 1]
    /\ detected.value # AfterFirstEq(argv[First(LongPositions)])

----------------------------------------------------------------------------
(* Properties of the link target rewriter (SpecUri). *)

Marker == <<"#", "d", "o", "c", "u", "m", "e", "n", "t", "-">>

HasMarker(uri) == Len(uri) >= 10 /\ SubSeq(uri, 1, 10) = Marker

\* t is the part of uri from the first "#" after the marker prefix to the end,
\* empty when there is none
IsAnchorPart(t, uri) ==
    \E k \in 10..Len(uri) :
        /\ t = SubSeq(uri, k + 1, Len(uri))
        /\ \A m \in 11..k : uri[m] # "#"
        /\ t = <<>> \/ t[1] = "#"

\* C4: patched_get_target_uri returns, for a host address with the marker
\* prefix "#document-", root_doc + out_suffix followed by the part of the host
\* address from the first "#" after the marker prefix to the end (nothing when
\* there is none), which is never an address of the "#document-..." shape; for a
\* host address without the marker prefix it returns the host address.
C4_Rewrite ==
    (patched /\ uri_call.called) =>
        /\ HasMarker(uri_call.host) =>
               /\ \E k \in 0..Len(uri_call.result) :
                      /\ SubSeq(uri_call.result, 1, k) =
                             config.root_doc \o config.html_file_suffix
                      /\ IsAnchorPart(SubSeq(uri_call.result, k + 1,
                                             Len(uri_call.result)),
                                      uri_call.host)
               /\ ~HasMarker(uri_call.result)
        /\ ~HasMarker(uri_call.host) => uri_call.result = uri_call.host

C4_Witness ==
    /\ patched
    /\ uri_call.called
    /\ uri_call.host = Marker \o <<"a", "#", "a">>
    /\ uri_call.result = config.root_doc \o config.html_file_suffix \o <<"#", "a">>

\* C9: after the builder-inited callback get_target_uri is patched exactly when
\* the builder's name is inventory-singlehtml or singlehtml; for every other
\* builder, inventory-html among them, a call returns the host's address.
C9_PatchedIffSinglePage ==
    pc = "resolving" =>
        /\ patched <=> builder_name \in
               {<<"i", "n", "v", "e", "n", "t", "o", "r", "y", "-",
                  "s", "i", "n", "g", "l", "e", "h", "t", "m", "l">>,
                <<"s", "i", "n", "g", "l", "e", "h", "t", "m", "l">>}
        /\ (uri_call.called /\ builder_name \notin
               {<<"i", "n", "v", "e", "n", "t", "o", "r", "y", "-",
                  "s", "i", "n", "g", "l", "e", "h", "t", "m", "l">>,
                <<"s", "i", "n", "g", "l", "e", "h", "t", "m", "l">>}) =>
               uri_call.result = uri_call.host

C9_Witness ==
    /\ pc = "resolving"
    /\ builder_name = s_inventory_html
    /\ ~patched
    /\ uri_call.called
    /\ HasMarker(uri_call.host)
    /\ uri_call.result = uri_call.host

====
